---- MODULE Spec2Model ----
(***************************************************************************)
(* Opportunity scanner of the Solana wallet plugin (src/src/tools.ts):     *)
(* scanOpportunities with its two provider adapters, the two scorers       *)
(* calculateOpportunityScore and calculateGeckoScore, and the solana_scan  *)
(* tool handler; and the wallet file with the solana_wallet handler and    *)
(* the plugin's activate (src/unnamed/part_000, src/README.md).            *)
(*                                                                         *)
(* JSON values that may be absent are modelled as sets: {} is undefined,   *)
(* {v} is the value v.  Numbers are integers; a ratio a/b > p/q with       *)
(* positive b and q is decided as a*q > p*b.  Decimal strings are          *)
(* sequences of digits, other strings are sequences of atoms.              *)
(***************************************************************************)
EXTENDS Integers, Sequences, FiniteSets, TLC

VARIABLES
  chain,          \* scanOpportunities' chain argument
  maxResults,     \* scanOpportunities' maxResults argument
  boostedResp,    \* what GET /token-boosts/latest/v1 answers in this scan
  trendingResp,   \* what GET /networks/solana/trending_pools answers in this scan
  pc,             \* position of the scan: the await it is suspended at
  solTokens,      \* local solTokens of scanOpportunities
  tokIdx,         \* position of the for-of loop over solTokens
  detailResp,     \* the answers of the per-token detail endpoint so far, in order
  opportunities,  \* local opportunities array (the working set)
  result,         \* the handler's returned object
  requests,       \* the HTTP requests the scan has issued so far, in order
  inFlight,       \* the issued requests that have not settled yet: positions in requests
  scoreIn,        \* scorer harness: the payload handed to a scorer
  scoreOut,       \* scorer harness: the scorer's return value
  scorePc,        \* scorer harness: "idle" | "ready" | "done"
  walletFile,        \* the keypair stored in the file at config.walletPath, if any
  autoCreateWallet,  \* config.autoCreateWallet
  invAction,      \* per invocation: "create" | "address" | "balance" | "activate"
  invPc,          \* per invocation: the await it is suspended at
  invExists,      \* per invocation: what walletExists answered
  invResult,      \* per invocation: what it returned
  fileWrites,     \* how many times fs.writeFile has written the wallet file
  addressLog      \* the addresses handed out so far, in order

scanVars == <<chain, maxResults, boostedResp, trendingResp, pc, solTokens, tokIdx,
              detailResp, opportunities, result, requests, inFlight>>
scoreVars == <<scoreIn, scoreOut, scorePc>>
walletVars == <<walletFile, autoCreateWallet, invAction, invPc, invExists, invResult,
                fileWrites, addressLog>>
vars == <<scanVars, scoreVars, walletVars>>

(***************************************************************************)
(* Bounds of the model.                                                    *)
(***************************************************************************)
MaxItems == 2          \* longest provider list
MaxResultsBound == 2   \* largest maxResults argument
MaxInvocations == 3    \* wallet invocations running at once

(***************************************************************************)
(* JavaScript value helpers.                                               *)
(***************************************************************************)
Undefined == {}
Present(v) == {v}
ValueOf(x) == CHOOSE v \in x : TRUE

\* the optional values over S
Opt(S) == {Undefined} \cup {Present(v) : v \in S}

\* x || d for a number-or-undefined x: undefined and 0 are falsy
OrElse(x, d) == IF x = Undefined THEN d ELSE IF ValueOf(x) = 0 THEN d ELSE ValueOf(x)

\* s || d for a string-or-undefined s: undefined and '' are falsy
StrOrElse(s, d) == IF s = Undefined THEN d ELSE IF ValueOf(s) = <<>> THEN d ELSE ValueOf(s)

\* x > c and x < c where x may be undefined: a comparison with undefined is false
Gt(x, c) == x # Undefined /\ ValueOf(x) > c
Lt(x, c) == x # Undefined /\ ValueOf(x) < c

\* n / d > p / q for d > 0, q > 0
RatioGt(n, d, p, q) == n * q > p * d
\* n / d < p / q for d > 0, q > 0
RatioLt(n, d, p, q) == n * q < p * d

Max(a, b) == IF a >= b THEN a ELSE b
Min(a, b) == IF a <= b THEN a ELSE b

\* the number the first n digits of s denote
RECURSIVE DigitsValue(_, _)
DigitsValue(s, n) == IF n = 0 THEN 0 ELSE 10 * DigitsValue(s, n - 1) + s[n]

\* parseFloat of a string of decimal digits
ParseFloat(s) == DigitsValue(s, Len(s))

(***************************************************************************)
(* calculateOpportunityScore (tools.ts 117-155).  A pair is the first      *)
(* entry of the detail endpoint's pairs, flattened:                        *)
(*   fdv = pair.fdv, m5/h1/h24 = pair.priceChange.*,                       *)
(*   liquidity = pair.liquidity.usd, volume = pair.volume.h24,             *)
(*   buys/sells = pair.txns.h24.*                                          *)
(***************************************************************************)
\* lines 127-130: the if / else-if chain on fdv
EarlyStageBonus(fdv) ==
  IF fdv > 0 /\ fdv < 500000 THEN 30
  ELSE IF fdv < 2000000 THEN 20
  ELSE IF fdv < 10000000 THEN 10
  ELSE 0

\* variant: lines 133-134 only
MomentumScore_NoConfirm(m5, h1) ==
  (IF Gt(m5, 0) /\ Lt(m5, 15) THEN ValueOf(m5) * 3 ELSE 0)
  + (IF Gt(h1, 0) /\ Lt(h1, 30) THEN ValueOf(h1) * 2 ELSE 0)

\* lines 132-135
MomentumScore(m5, h1) ==
  (IF Gt(m5, 0) /\ Lt(m5, 15) THEN ValueOf(m5) * 3 ELSE 0)
  + (IF Gt(h1, 0) /\ Lt(h1, 30) THEN ValueOf(h1) * 2 ELSE 0)
  + (IF Gt(h1, 5) /\ Gt(m5, 0) THEN 15 ELSE 0)

\* lines 137-140: volLiqRatio = volume24h / (liquidity || 1)
VolLiqScore(volume24h, liquidity) ==
  LET den == IF liquidity = 0 THEN 1 ELSE liquidity
  IN (IF RatioGt(volume24h, den, 2, 1) THEN 20 ELSE 0)
     + (IF RatioGt(volume24h, den, 5, 1) THEN 15 ELSE 0)

\* lines 142-145: buyRatio = buys24h / (sells24h || 1)
BuyPressureScore(buys24h, sells24h) ==
  LET den == IF sells24h = 0 THEN 1 ELSE sells24h
  IN (IF RatioGt(buys24h, den, 13, 10) THEN 15 ELSE 0)
     + (IF RatioGt(buys24h, den, 2, 1) THEN 10 ELSE 0)

\* lines 147-152
PenaltyScore(m5, h1, h24, liquidity, buys24h, sells24h) ==
  LET den == IF sells24h = 0 THEN 1 ELSE sells24h
  IN (IF Gt(m5, 30) THEN 25 ELSE 0)
     + (IF Lt(h1, -15) THEN 20 ELSE 0)
     + (IF Lt(h24, -40) THEN 20 ELSE 0)
     + (IF liquidity < 15000 THEN 10 ELSE 0)
     + (IF RatioLt(buys24h, den, 1, 2) THEN 15 ELSE 0)

\* lines 118-152: the running total before the floor
RawOpportunityScore(pair) ==
  LET liquidity == OrElse(pair.liquidity, 0)
      volume24h == OrElse(pair.volume, 0)
      fdv == OrElse(pair.fdv, 0)
      buys24h == OrElse(pair.buys, 0)
      sells24h == OrElse(pair.sells, 0)
  IN EarlyStageBonus(fdv)
     + MomentumScore(pair.m5, pair.h1)
     + VolLiqScore(volume24h, liquidity)
     + BuyPressureScore(buys24h, sells24h)
     - PenaltyScore(pair.m5, pair.h1, pair.h24, liquidity, buys24h, sells24h)

\* variant: no Math.max
calculateOpportunityScore_NoFloor(pair) == RawOpportunityScore(pair)

\* line 154
calculateOpportunityScore(pair) == Max(0, RawOpportunityScore(pair))

(***************************************************************************)
(* calculateGeckoScore (tools.ts 160-183).  An attr is pool.attributes,    *)
(* flattened: m5/h1/h6/h24 = attr.price_change_percentage.*,               *)
(* reserve_in_usd, volume_usd = attr.volume_usd.h24 (decimal strings).     *)
(***************************************************************************)
\* variant: without line 176
RawGeckoScore_NoBase(attr) ==
  LET liquidity == ParseFloat(StrOrElse(attr.reserve_in_usd, <<0>>))
      volume24h == ParseFloat(StrOrElse(attr.volume_usd, <<0>>))
      den == IF liquidity = 0 THEN 1 ELSE liquidity
  IN (IF Gt(attr.h1, 0) /\ Lt(attr.h1, 30) THEN ValueOf(attr.h1) * 2 ELSE 0)
     + (IF Gt(attr.h6, 0) /\ Lt(attr.h6, 50) THEN ValueOf(attr.h6) ELSE 0)
     + (IF RatioGt(volume24h, den, 2, 1) THEN 20 ELSE 0)
     - (IF Lt(attr.h1, -15) THEN 20 ELSE 0)
     - (IF liquidity < 15000 THEN 10 ELSE 0)

\* lines 161-180: the running total before the floor
RawGeckoScore(attr) ==
  LET liquidity == ParseFloat(StrOrElse(attr.reserve_in_usd, <<0>>))
      volume24h == ParseFloat(StrOrElse(attr.volume_usd, <<0>>))
      den == IF liquidity = 0 THEN 1 ELSE liquidity
  IN (IF Gt(attr.h1, 0) /\ Lt(attr.h1, 30) THEN ValueOf(attr.h1) * 2 ELSE 0)
     + (IF Gt(attr.h6, 0) /\ Lt(attr.h6, 50) THEN ValueOf(attr.h6) ELSE 0)
     + (IF RatioGt(volume24h, den, 2, 1) THEN 20 ELSE 0)
     + 10
     - (IF Lt(attr.h1, -15) THEN 20 ELSE 0)
     - (IF liquidity < 15000 THEN 10 ELSE 0)

\* line 182
calculateGeckoScore(attr) == Max(0, RawGeckoScore(attr))

(***************************************************************************)
(* Strings of the payloads: sequences of atoms.                            *)
(***************************************************************************)
AtomLen(a) ==
  CASE a = "solana_" -> 7
    [] a = "A" -> 44
    [] a = "B" -> 44
    [] a = "S10" -> 10
    [] OTHER -> 1

\* the length of the first n atoms of s
RECURSIVE AtomsLen(_, _)
AtomsLen(s, n) == IF n = 0 THEN 0 ELSE AtomsLen(s, n - 1) + AtomLen(s[n])

\* String.length
StrLen(s) == AtomsLen(s, Len(s))

\* s.replace(a, ''): the first occurrence of a is removed
RemoveFirst(s, a) ==
  IF \E i \in 1..Len(s) : s[i] = a
  THEN LET i == CHOOSE k \in 1..Len(s) : s[k] = a /\ \A j \in 1..(k - 1) : s[j] # a
       IN SubSeq(s, 1, i - 1) \o SubSeq(s, i + 1, Len(s))
  ELSE s

\* Array.prototype.slice(0, n) for n >= 0
Slice(s, n) == SubSeq(s, 1, Min(n, Len(s)))

SeqUpTo(S, n) == UNION {[1..k -> S] : k \in 0..n}

(***************************************************************************)
(* Aggregation (tools.ts 104-111).  A Candidate is [mint, source, score]:  *)
(* the fields dedup and ranking read.                                      *)
(***************************************************************************)
\* self.findIndex(o => o.mint === mint), 1-based; 0 when there is none
FindIndex(self, mint) ==
  IF \E i \in 1..Len(self) : self[i].mint = mint
  THEN CHOOSE i \in 1..Len(self) :
         /\ self[i].mint = mint
         /\ \A j \in 1..(i - 1) : self[j].mint # mint
  ELSE 0

FindLastIndex(self, mint) ==
  IF \E i \in 1..Len(self) : self[i].mint = mint
  THEN CHOOSE i \in 1..Len(self) :
         /\ self[i].mint = mint
         /\ \A j \in (i + 1)..Len(self) : self[j].mint # mint
  ELSE 0

KeepFirst(self, i) == i = FindIndex(self, self[i].mint)
KeepLast(self, i) == i = FindLastIndex(self, self[i].mint)

\* self.filter((opp, index) => index === self.findIndex(...)), from index i on
RECURSIVE FilterFirst(_, _)
FilterFirst(self, i) ==
  IF i > Len(self) THEN <<>>
  ELSE (IF KeepFirst(self, i) THEN <<self[i]>> ELSE <<>>) \o FilterFirst(self, i + 1)

RECURSIVE FilterLast(_, _)
FilterLast(self, i) ==
  IF i > Len(self) THEN <<>>
  ELSE (IF KeepLast(self, i) THEN <<self[i]>> ELSE <<>>) \o FilterLast(self, i + 1)

\* variants: no filter, and a filter on the last index of each mint
UniqueOpportunities_NoDedup(opps) == opps
UniqueOpportunities_KeepLast(opps) == FilterLast(opps, 1)

\* lines 105-107
UniqueOpportunities(opps) == FilterFirst(opps, 1)

\* one insertion of Array.prototype.sort with (a, b) => b.score - a.score:
\* c goes after every entry that does not sort after it (the sort is stable)
RECURSIVE InsertByScore(_, _)
InsertByScore(sorted, c) ==
  IF sorted = <<>> THEN <<c>>
  ELSE IF c.score - Head(sorted).score > 0 THEN <<c>> \o sorted
  ELSE <<Head(sorted)>> \o InsertByScore(Tail(sorted), c)

RECURSIVE InsertByScoreAsc(_, _)
InsertByScoreAsc(sorted, c) ==
  IF sorted = <<>> THEN <<c>>
  ELSE IF Head(sorted).score - c.score > 0 THEN <<c>> \o sorted
  ELSE <<Head(sorted)>> \o InsertByScoreAsc(Tail(sorted), c)

RECURSIVE SortInto(_, _)
SortInto(s, acc) ==
  IF s = <<>> THEN acc ELSE SortInto(Tail(s), InsertByScore(acc, Head(s)))

RECURSIVE SortIntoAsc(_, _)
SortIntoAsc(s, acc) ==
  IF s = <<>> THEN acc ELSE SortIntoAsc(Tail(s), InsertByScoreAsc(acc, Head(s)))

\* variant: the comparator a.score - b.score
SortByScore_Ascending(s) == SortIntoAsc(s, <<>>)

\* line 110: .sort((a, b) => b.score - a.score)
SortByScore(s) == SortInto(s, <<>>)

\* variant: slice before sort
RankedSlice_SliceFirst(opps, n) == SortByScore(Slice(UniqueOpportunities(opps), n))

\* lines 105-111: what scanOpportunities returns
RankedSlice(opps, n) == Slice(SortByScore(UniqueOpportunities(opps)), n)

(***************************************************************************)
(* Provider payloads.                                                      *)
(***************************************************************************)
\* the worked example of the scoring rules: scores 115
PairRising ==
  [fdv |-> Present(300000), m5 |-> Present(5), h1 |-> Present(10), h24 |-> Undefined,
   volume |-> Present(150000), liquidity |-> Present(50000),
   buys |-> Present(120), sells |-> Present(80)]
\* pumped and thin: scores 0
PairPumped ==
  [fdv |-> Undefined, m5 |-> Present(40), h1 |-> Undefined, h24 |-> Undefined,
   volume |-> Undefined, liquidity |-> Present(10000),
   buys |-> Undefined, sells |-> Undefined]
PairSamples == {PairRising, PairPumped}

\* scores 70
AttrRising ==
  [m5 |-> Present(5), h1 |-> Present(10), h6 |-> Present(20), h24 |-> Undefined,
   volume_usd |-> Present(<<9, 0, 0, 0, 0>>), reserve_in_usd |-> Present(<<3, 0, 0, 0, 0>>)]
\* scores 0
AttrDumping ==
  [m5 |-> Undefined, h1 |-> Present(-20), h6 |-> Undefined, h24 |-> Undefined,
   volume_usd |-> Undefined, reserve_in_usd |-> Present(<<9, 0, 0, 0>>)]
AttrSamples == {AttrRising, AttrDumping}

\* entries of the promoted list; Undefined is a null entry
BoostedItems ==
  {Present([chainId |-> "solana", tokenAddress |-> <<"A">>]),
   Present([chainId |-> "solana", tokenAddress |-> <<"B">>]),
   Present([chainId |-> "ethereum", tokenAddress |-> <<"A">>]),
   Undefined}

\* fetch rejects | body is not JSON | JSON null | a JSON object | a JSON array
BoostedResponses ==
  {[kind |-> "reject"], [kind |-> "badjson"], [kind |-> "null"], [kind |-> "object"]}
  \cup {[kind |-> "array", items |-> s] : s \in SeqUpTo(BoostedItems, MaxItems)}

\* fetch rejects | body is not JSON | {pairs: undefined | [] | [pair]}
DetailResponses ==
  {[kind |-> "reject"], [kind |-> "badjson"],
   [kind |-> "json", pairs |-> Undefined], [kind |-> "json", pairs |-> Present(<<>>)]}
  \cup {[kind |-> "json", pairs |-> Present(<<p>>)] : p \in PairSamples}

\* pool.relationships.base_token.data.id and pool.attributes
PoolItems ==
  {[id |-> Present(<<"solana_", "A">>), attributes |-> a] : a \in Opt(AttrSamples)}
  \cup {[id |-> Present(<<"solana_", "B">>), attributes |-> Present(AttrRising)],
        [id |-> Present(<<"solana_", "S10">>), attributes |-> Present(AttrRising)]}

\* fetch rejects | body is not JSON | {data: undefined | [pool, ...]}
TrendingResponses ==
  {[kind |-> "reject"], [kind |-> "badjson"], [kind |-> "json", data |-> Undefined]}
  \cup {[kind |-> "json", data |-> Present(s)] : s \in SeqUpTo(PoolItems, MaxItems)}

\* the state of the part of the model that is not running
NoPayload == [kind |-> "none"]

ScanIdle ==
  /\ chain = "none"
  /\ maxResults = 0
  /\ boostedResp = [kind |-> "none"]
  /\ trendingResp = [kind |-> "none"]
  /\ pc = "idle"
  /\ solTokens = <<>>
  /\ tokIdx = 0
  /\ detailResp = <<>>
  /\ opportunities = <<>>
  /\ result = [kind |-> "none"]
  /\ requests = <<>>
  /\ inFlight = {}

ScoreIdle ==
  /\ scoreIn = NoPayload
  /\ scoreOut = 0
  /\ scorePc = "idle"

\* no wallet invocation is running
WalletIdle ==
  /\ walletFile = Undefined
  /\ autoCreateWallet = FALSE
  /\ invAction = <<>>
  /\ invPc = <<>>
  /\ invExists = <<>>
  /\ invResult = <<>>
  /\ fileWrites = 0
  /\ addressLog = <<>>

(***************************************************************************)
(* scanOpportunities (tools.ts 30-112) and the solana_scan handler         *)
(* (tools.ts 333-350).                                                     *)
(***************************************************************************)
\* lines 35-37: whether fetch, json() or the filter callback throws
BoostedThrows(resp) ==
  \/ resp.kind \in {"reject", "badjson", "object"}
  \/ /\ resp.kind = "array"
     /\ \E i \in 1..Len(resp.items) : resp.items[i] = Undefined

\* variant: the selection is not cut to maxResults
SolTokens_NoSlice(resp, n) ==
  IF resp.kind = "null" THEN <<>>
  ELSE SelectSeq(resp.items, LAMBDA t : ValueOf(t).chainId = "solana")

\* line 37: (boostedData || []).filter(t => t.chainId === 'solana').slice(0, maxResults)
SolTokens(resp, n) ==
  IF resp.kind = "null" THEN <<>>
  ELSE Slice(SelectSeq(resp.items, LAMBDA t : ValueOf(t).chainId = "solana"), n)

\* lines 44-61: the Candidate of one promoted token, <<>> when there is none
BoostedCandidate(token, detail) ==
  IF detail.kind = "json" /\ detail.pairs # Undefined /\ Len(ValueOf(detail.pairs)) > 0
  THEN <<[mint |-> ValueOf(token).tokenAddress,
          source |-> "dexscreener-boosted",
          score |-> calculateOpportunityScore(ValueOf(detail.pairs)[1])]>>
  ELSE <<>>

\* lines 74-75
TokenAddr(pool) == RemoveFirst(StrOrElse(pool.id, <<>>), "solana_")

\* line 77
PlausibleAddr(tokenAddr) == tokenAddr # <<>> /\ StrLen(tokenAddr) > 10

\* lines 78-94: the Candidate of one pool
TrendingCandidate(pool) ==
  [mint |-> TokenAddr(pool),
   source |-> "geckoterminal-trending",
   score |-> calculateGeckoScore(ValueOf(pool.attributes))]

\* lines 73-96: the for loop over the pools from pool i on; thrown when
\* pool.attributes is undefined at line 81, which ends the loop
RECURSIVE PushPools(_, _, _)
PushPools(pools, i, opps) ==
  IF i > Len(pools) THEN [opps |-> opps, thrown |-> FALSE]
  ELSE IF ~PlausibleAddr(TokenAddr(pools[i])) THEN PushPools(pools, i + 1, opps)
  ELSE IF pools[i].attributes = Undefined THEN [opps |-> opps, thrown |-> TRUE]
  ELSE PushPools(pools, i + 1, Append(opps, TrendingCandidate(pools[i])))

\* lines 69-99: the trending adapter; a throw is caught at line 97
TrendingAdapter(resp, n, opps) ==
  IF resp.kind \in {"reject", "badjson"} THEN opps
  ELSE PushPools(Slice(StrOrElse(resp.data, <<>>), n), 1, opps).opps

\* variant: the catch rethrows
ScanCatch_Rethrow == "rethrown"

\* lines 100-102: the catch around both adapters logs and goes on
ScanCatch == "swallowed"

\* line 35: GET api.dexscreener.com/token-boosts/latest/v1
BoostedRequest == [endpoint |-> "boosted"]

\* line 41: GET api.dexscreener.com/latest/dex/tokens/${token.tokenAddress}
DetailRequest(token) == [endpoint |-> "detail", token |-> ValueOf(token).tokenAddress]

\* line 70: GET api.geckoterminal.com/api/v2/networks/solana/trending_pools
TrendingRequest == [endpoint |-> "trending", network |-> "solana"]

\* lines 39-41 and 68-70: the request the scan issues when it reaches
\* position i of the loop over tokens: the detail of token i, or the
\* trending pools once the loop is over
NextRequest(tokens, i) ==
  IF i <= Len(tokens) THEN DetailRequest(tokens[i]) ELSE TrendingRequest

\* await fetch(...): the request just appended to the log is now in flight
Issued(flying, log) == flying \cup {Len(log)}

\* the awaited request, the last one of the log, has settled
Settled(flying, log) == flying \ {Len(log)}

\* the chain arguments the handler is called with (lines 333-337)
Chains == {"solana", "ethereum"}

Init ==
  /\ chain \in Chains
  /\ maxResults \in 1..MaxResultsBound
  /\ boostedResp \in BoostedResponses
  /\ trendingResp \in TrendingResponses
  /\ pc = "start"
  /\ solTokens = <<>>
  /\ tokIdx = 0
  /\ detailResp = <<>>
  /\ opportunities = <<>>
  /\ result = [kind |-> "none"]
  /\ requests = <<>>
  /\ inFlight = {}
  /\ ScoreIdle
  /\ WalletIdle

\* lines 30-35: the scan runs up to its first await, the promoted-list request
StartScan ==
  /\ pc = "start"
  /\ requests' = Append(requests, BoostedRequest)
  /\ inFlight' = Issued(inFlight, requests')
  /\ pc' = "boosted"
  /\ UNCHANGED <<chain, maxResults, boostedResp, trendingResp, solTokens, tokIdx,
                 detailResp, opportunities, result, scoreVars, walletVars>>

\* lines 35-41 (68-70 when no token is selected): the promoted-list
\* request settles and the scan runs up to its next await
FetchBoosted ==
  /\ pc = "boosted"
  /\ IF BoostedThrows(boostedResp)
     THEN /\ pc' = IF ScanCatch = "swallowed" THEN "return" ELSE "thrown"
          /\ inFlight' = Settled(inFlight, requests)
          /\ UNCHANGED <<solTokens, tokIdx, requests>>
     ELSE /\ solTokens' = SolTokens(boostedResp, maxResults)
          /\ tokIdx' = 1
          /\ requests' = Append(requests, NextRequest(solTokens', 1))
          /\ inFlight' = Issued(Settled(inFlight, requests), requests')
          /\ pc' = "tokens"
  /\ UNCHANGED <<chain, maxResults, boostedResp, trendingResp, detailResp, opportunities,
                 result, scoreVars, walletVars>>

\* variant: a failing detail request ends the loop and the scan's try block
FetchTokenDetail_Abort ==
  /\ pc = "tokens"
  /\ tokIdx <= Len(solTokens)
  /\ \E d \in DetailResponses :
       /\ detailResp' = Append(detailResp, d)
       /\ opportunities' = opportunities \o BoostedCandidate(solTokens[tokIdx], d)
       /\ IF d.kind \in {"reject", "badjson"}
          THEN /\ pc' = "return"
               /\ requests' = requests
               /\ inFlight' = Settled(inFlight, requests)
          ELSE /\ pc' = pc
               /\ requests' = Append(requests, NextRequest(solTokens, tokIdx + 1))
               /\ inFlight' = Issued(Settled(inFlight, requests), requests')
  /\ tokIdx' = tokIdx + 1
  /\ UNCHANGED <<chain, maxResults, boostedResp, trendingResp, solTokens, result,
                 scoreVars, walletVars>>

\* lines 41-66 and on to the next await: the detail request of token tokIdx
\* settles, and the scan requests the next detail or the trending pools
FetchTokenDetail ==
  /\ pc = "tokens"
  /\ tokIdx <= Len(solTokens)
  /\ \E d \in DetailResponses :
       /\ detailResp' = Append(detailResp, d)
       /\ opportunities' = opportunities \o BoostedCandidate(solTokens[tokIdx], d)
  /\ tokIdx' = tokIdx + 1
  /\ requests' = Append(requests, NextRequest(solTokens, tokIdx + 1))
  /\ inFlight' = Issued(Settled(inFlight, requests), requests')
  /\ UNCHANGED <<chain, maxResults, boostedResp, trendingResp, pc, solTokens, result,
                 scoreVars, walletVars>>

\* lines 70-99: the trending request settles
FetchTrending ==
  /\ pc = "tokens"
  /\ tokIdx > Len(solTokens)
  /\ opportunities' = TrendingAdapter(trendingResp, maxResults, opportunities)
  /\ inFlight' = Settled(inFlight, requests)
  /\ pc' = "return"
  /\ UNCHANGED <<chain, maxResults, boostedResp, trendingResp, solTokens, tokIdx,
                 detailResp, result, requests, scoreVars, walletVars>>

\* lines 104-111 and the handler, lines 337-349
ReturnScan ==
  /\ pc \in {"return", "thrown"}
  /\ result' = IF pc = "thrown"
               THEN [kind |-> "result", success |-> FALSE, opportunities |-> <<>>, count |-> 0]
               ELSE LET ranked == RankedSlice(opportunities, maxResults)
                    IN [kind |-> "result", success |-> TRUE, opportunities |-> ranked,
                        count |-> Len(ranked)]
  /\ pc' = "done"
  /\ UNCHANGED <<chain, maxResults, boostedResp, trendingResp, solTokens, tokIdx,
                 detailResp, opportunities, requests, inFlight, scoreVars, walletVars>>

Next == StartScan \/ FetchBoosted \/ FetchTokenDetail \/ FetchTrending \/ ReturnScan

Spec == Init /\ [][Next]_vars

\* every awaited fetch settles, and the event loop then resumes the scan
SpecLive == Spec /\ WF_vars(Next)

(***************************************************************************)
(* Scorer harness: one scorer call on one payload.  The payloads are the   *)
(* values on and next to every threshold of the two scorers.               *)
(***************************************************************************)
\* the decimal string of n >= 0
RECURSIVE ToDigits(_)
ToDigits(n) == IF n < 10 THEN <<n>> ELSE Append(ToDigits(n \div 10), n % 10)

FdvVals == Opt({0, 1, 300000, 499999, 500000, 1999999, 2000000, 9999999, 10000000})
M5Vals == Opt({-10, 0, 5, 14, 15, 30, 31})
H1Vals == Opt({-16, -15, 0, 5, 6, 10, 29, 30})
H6Vals == Opt({-5, 0, 1, 20, 49, 50})
H24Vals == Opt({-41, -40, 10})
\* <<volume24h, liquidity>>
VolLiqVals == {<<Undefined, Undefined>>} \cup
  {<<Present(p[1]), Present(p[2])>> : p \in
     {<<3, 0>>, <<5, 0>>, <<6, 0>>, <<0, 10000>>, <<29999, 14999>>,
      <<30000, 15000>>, <<30001, 15000>>, <<75001, 15000>>, <<150000, 50000>>}}
\* <<buys24h, sells24h>>
BuySellVals == {<<Undefined, Undefined>>} \cup
  {<<Present(p[1]), Present(p[2])>> : p \in
     {<<2, 0>>, <<3, 0>>, <<0, 1>>, <<1, 2>>, <<1, 3>>, <<13, 10>>,
      <<14, 10>>, <<120, 80>>}}

\* the first pair of a detail answer with the given metrics
PairOf(fdv, m5, h1, h24, volume, liquidity, buys, sells) ==
  [fdv |-> fdv, m5 |-> m5, h1 |-> h1, h24 |-> h24, volume |-> volume,
   liquidity |-> liquidity, buys |-> buys, sells |-> sells]

DigitsOf(x) == IF x = Undefined THEN Undefined ELSE Present(ToDigits(ValueOf(x)))

\* the attributes object of a pool with the given metrics
AttrOf(m5, h1, h6, h24, volume, liquidity) ==
  [m5 |-> m5, h1 |-> h1, h6 |-> h6, h24 |-> h24, volume_usd |-> DigitsOf(volume),
   reserve_in_usd |-> DigitsOf(liquidity)]

\* a scorer input is the payload and the volume and liquidity it encodes
InitScore ==
  /\ ScanIdle
  /\ WalletIdle
  /\ \/ \E f \in FdvVals, a \in M5Vals, b \in H1Vals, c \in H24Vals,
          vl \in VolLiqVals, bs \in BuySellVals :
          scoreIn = [kind |-> "pair",
                     payload |-> PairOf(f, a, b, c, vl[1], vl[2], bs[1], bs[2]),
                     volume |-> vl[1], liquidity |-> vl[2]]
     \/ \E a \in Opt({5, 31}), b \in H1Vals, c \in H6Vals, d \in Opt({-41}),
          vl \in VolLiqVals :
          scoreIn = [kind |-> "attr",
                     payload |-> AttrOf(a, b, c, d, vl[1], vl[2]),
                     volume |-> vl[1], liquidity |-> vl[2]]
  /\ scoreOut = 0
  /\ scorePc = "ready"

ScorePair ==
  /\ scorePc = "ready"
  /\ scoreIn.kind = "pair"
  /\ scoreOut' = calculateOpportunityScore(scoreIn.payload)
  /\ scorePc' = "done"
  /\ UNCHANGED <<scoreIn, scanVars, walletVars>>

ScoreAttr ==
  /\ scorePc = "ready"
  /\ scoreIn.kind = "attr"
  /\ scoreOut' = calculateGeckoScore(scoreIn.payload)
  /\ scorePc' = "done"
  /\ UNCHANGED <<scoreIn, scanVars, walletVars>>

NextScore == ScorePair \/ ScoreAttr

SpecScore == InitScore /\ [][NextScore]_vars

\* scans and scorer calls together
InitAll == Init \/ InitScore
NextAll == Next \/ NextScore
SpecAll == InitAll /\ [][NextAll]_vars

(***************************************************************************)
(* The wallet file (src/unnamed/part_000, the plugin's wallet.ts), the     *)
(* solana_wallet handler (tools.ts 206-257) and activate (README.md        *)
(* 212-252).  Invocations interleave at their awaits.  A keypair is named  *)
(* by the invocation that generated it; 0 names the keypair of a wallet    *)
(* file that exists before any invocation starts.  fs.writeFile replaces   *)
(* the content of the file in one step.                                    *)
(***************************************************************************)
Invocations == 1..MaxInvocations

\* the solana_wallet actions (tools.ts 200-204) and the plugin's activate
WalletActions == {"create", "address", "balance", "activate"}

NoResult == [kind |-> "none"]

InitWallet ==
  /\ ScanIdle
  /\ ScoreIdle
  /\ walletFile \in {Undefined, Present(0)}
  /\ autoCreateWallet \in BOOLEAN
  /\ invAction \in [Invocations -> WalletActions]
  /\ invPc = [p \in Invocations |-> "start"]
  /\ invExists = [p \in Invocations |-> FALSE]
  /\ invResult = [p \in Invocations |-> NoResult]
  /\ fileWrites = 0
  /\ addressLog = <<>>

\* part_000 line 31: fs.writeFile(walletPath, ...) replaces the content
WriteFile(file, keypair) == Present(keypair)

\* part_000 107-114: fs.access answers for the file as it is now
walletExists(p) ==
  /\ invPc[p] = "start"
  /\ invExists' = [invExists EXCEPT ![p] = walletFile # Undefined]
  /\ invPc' = [invPc EXCEPT ![p] = "checked"]
  /\ UNCHANGED <<walletFile, autoCreateWallet, invAction, invResult, fileWrites,
                 addressLog, scanVars, scoreVars>>

\* tools.ts 210-217: case 'create' after walletExists has answered
HandlerCreate(p) ==
  /\ invPc[p] = "checked"
  /\ invAction[p] = "create"
  /\ invPc' = [invPc EXCEPT ![p] = IF invExists[p] THEN "getAddress" ELSE "createWallet"]
  /\ UNCHANGED <<walletFile, autoCreateWallet, invAction, invExists, invResult,
                 fileWrites, addressLog, scanVars, scoreVars>>

\* tools.ts 226-235 and 239-249: case 'address' and case 'balance' after
\* walletExists has answered
HandlerAddress(p) ==
  /\ invPc[p] = "checked"
  /\ invAction[p] \in {"address", "balance"}
  /\ IF invExists[p]
     THEN /\ invPc' = [invPc EXCEPT ![p] = "getAddress"]
          /\ UNCHANGED invResult
     ELSE IF autoCreateWallet
     THEN /\ invPc' = [invPc EXCEPT ![p] = "createWallet"]
          /\ UNCHANGED invResult
     ELSE /\ invPc' = [invPc EXCEPT ![p] = "done"]
          /\ invResult' = [invResult EXCEPT ![p] = [kind |-> "error"]]
  /\ UNCHANGED <<walletFile, autoCreateWallet, invAction, invExists, fileWrites,
                 addressLog, scanVars, scoreVars>>

\* README.md 224-249: activate after walletExists has answered
Activate(p) ==
  /\ invPc[p] = "checked"
  /\ invAction[p] = "activate"
  /\ IF ~invExists[p] /\ autoCreateWallet
     THEN /\ invPc' = [invPc EXCEPT ![p] = "createWallet"]
          /\ UNCHANGED invResult
     ELSE IF invExists[p]
     THEN /\ invPc' = [invPc EXCEPT ![p] = "getAddress"]
          /\ UNCHANGED invResult
     ELSE /\ invPc' = [invPc EXCEPT ![p] = "done"]
          /\ invResult' = [invResult EXCEPT ![p] = [kind |-> "nowallet"]]
  /\ UNCHANGED <<walletFile, autoCreateWallet, invAction, invExists, fileWrites,
                 addressLog, scanVars, scoreVars>>

\* part_000 23-31: createWallet generates a keypair and writes the file
createWallet(p) ==
  /\ invPc[p] = "createWallet"
  /\ walletFile' = WriteFile(walletFile, p)
  /\ fileWrites' = fileWrites + 1
  /\ invPc' = [invPc EXCEPT ![p] = "created"]
  /\ UNCHANGED <<autoCreateWallet, invAction, invExists, invResult, addressLog,
                 scanVars, scoreVars>>

\* part_000 33 and tools.ts 217-223, 229-230, 242-244, README.md 228-229:
\* createWallet returns the generated public key, and the caller hands it out
ReturnCreated(p) ==
  /\ invPc[p] = "created"
  /\ invResult' = [invResult EXCEPT
                     ![p] = [kind |-> "address", address |-> p, created |-> TRUE]]
  /\ addressLog' = Append(addressLog, [address |-> p, created |-> TRUE])
  /\ invPc' = [invPc EXCEPT ![p] = "done"]
  /\ UNCHANGED <<walletFile, autoCreateWallet, invAction, invExists, fileWrites,
                 scanVars, scoreVars>>

\* part_000 39-55: getAddress reads the file as it is now; the caller hands
\* the address out (tools.ts 213-214, 235-236, 249-251, README.md 232-233)
getAddress(p) ==
  /\ invPc[p] = "getAddress"
  /\ IF walletFile = Undefined
     THEN /\ invResult' = [invResult EXCEPT ![p] = [kind |-> "error"]]
          /\ UNCHANGED addressLog
     ELSE /\ invResult' = [invResult EXCEPT
                             ![p] = [kind |-> "address", address |-> ValueOf(walletFile),
                                     created |-> FALSE]]
          /\ addressLog' = Append(addressLog, [address |-> ValueOf(walletFile),
                                               created |-> FALSE])
  /\ invPc' = [invPc EXCEPT ![p] = "done"]
  /\ UNCHANGED <<walletFile, autoCreateWallet, invAction, invExists, fileWrites,
                 scanVars, scoreVars>>

NextWallet ==
  \E p \in Invocations :
    \/ walletExists(p)
    \/ HandlerCreate(p)
    \/ HandlerAddress(p)
    \/ Activate(p)
    \/ createWallet(p)
    \/ ReturnCreated(p)
    \/ getAddress(p)

SpecWallet == InitWallet /\ [][NextWallet]_vars

(***************************************************************************)
(* Properties.                                                             *)
(***************************************************************************)
Range(s) == {s[i] : i \in 1..Len(s)}
Done == pc = "done"
Returned == result.opportunities

BoostedFailed == boostedResp.kind \in {"reject", "badjson"}
TrendingFailed == trendingResp.kind \in {"reject", "badjson"}

\* the Candidates the trending adapter yields when it runs alone
TrendingAlone == Range(TrendingAdapter(trendingResp, maxResults, <<>>))
\* the Candidates the promoted-listing adapter has yielded from its answers
BoostedAlone ==
  UNION {Range(BoostedCandidate(solTokens[i], detailResp[i])) : i \in 1..Len(detailResp)}

\* C1: fault isolation in both directions.  When the promoted-listing
\* request fails (rejects or is unparsable) and the trending provider
\* answers, every Candidate of the trending adapter is in the working set;
\* when the trending request fails and the promoted-listing provider
\* answers, every Candidate of the promoted-listing adapter is in it.
C1_FaultIsolation ==
  Done =>
    /\ (BoostedFailed /\ trendingResp.kind = "json")
         => TrendingAlone \subseteq Range(opportunities)
    /\ (TrendingFailed /\ ~BoostedThrows(boostedResp))
         => BoostedAlone \subseteq Range(opportunities)

\* C2: whatever the providers answer, the handler ends by returning a
\* result object: every scan reaches its return, no exception leaves
\* scanOpportunities, and the returned object has success = true and
\* count = the length of its list.
C2_ScanAlwaysReturns ==
  /\ <>Done
  /\ [](pc # "thrown")
  /\ [](Done => /\ result.kind = "result"
                /\ result.success = TRUE
                /\ result.count = Len(Returned))

\* a detail request and the trending request failed, and the scan returned
C2_Witness ==
  /\ Done
  /\ \E i \in 1..Len(detailResp) : detailResp[i].kind \in {"reject", "badjson"}
  /\ TrendingFailed
  /\ result.success = TRUE
  /\ result.count = Len(Returned)

\* C3: the returned list holds no two Candidates with the same mint.
C3_NoDuplicateMint ==
  Done => \A i, j \in 1..Len(Returned) :
            i # j => Returned[i].mint # Returned[j].mint

\* a mint yielded twice by one provider and once more by the other
C3_Witness ==
  /\ Done
  /\ \E i, j, k \in 1..Len(opportunities) :
       /\ i < j /\ j < k
       /\ opportunities[i].mint = opportunities[j].mint
       /\ opportunities[j].mint = opportunities[k].mint
       /\ opportunities[i].source = opportunities[j].source
       /\ opportunities[j].source # opportunities[k].source
  /\ Len(Returned) = 1

\* the first position of a mint in the working set
FirstPosition(mint) ==
  CHOOSE i \in 1..Len(opportunities) :
    /\ opportunities[i].mint = mint
    /\ \A j \in 1..Len(opportunities) : opportunities[j].mint = mint => i <= j

\* C4: every returned Candidate is the first Candidate of its mint in the
\* working set (promoted-listing Candidates first, then trending ones, each
\* in provider order), whatever the scores of the later ones.
C4_FirstOccurrenceKept ==
  Done => \A r \in Range(Returned) : r = opportunities[FirstPosition(r.mint)]

\* a mint seen twice, the later Candidate scoring higher, the first one returned
C4_Witness ==
  /\ Done
  /\ \E i, j \in 1..Len(opportunities) :
       /\ i < j
       /\ opportunities[i].mint = opportunities[j].mint
       /\ opportunities[j].score > opportunities[i].score
       /\ i = FirstPosition(opportunities[i].mint)
       /\ opportunities[i] \in Range(Returned)
       /\ opportunities[j] \notin Range(Returned)

\* C5: the returned list is sorted by score, non-increasing, and is no
\* longer than maxResults.
C5_SortedAndBounded ==
  Done => /\ \A i \in 1..(Len(Returned) - 1) : Returned[i].score >= Returned[i + 1].score
          /\ Len(Returned) <= maxResults

C5_Witness ==
  /\ Done
  /\ Len(Returned) >= 2
  /\ Returned[1].score > Returned[2].score
  /\ \E i, j \in 1..Len(opportunities) :
       i < j /\ opportunities[i] = Returned[2] /\ opportunities[j] = Returned[1]

\* the deduplicated working set: the first Candidate of every mint
DedupSet == {opportunities[FirstPosition(m)] : m \in {c.mint : c \in Range(opportunities)}}

\* C6: with n Candidates in the deduplicated working set the returned list
\* has min(maxResults, n) entries, and no Candidate left out scores higher
\* than a returned one.
C6_TruncationKeepsBest ==
  Done => /\ Len(Returned) = Min(maxResults, Cardinality(DedupSet))
          /\ \A c \in DedupSet \ Range(Returned) :
               \A r \in Range(Returned) : c.score <= r.score

\* more Candidates than maxResults, the first of them left out for a better one
C6_Witness ==
  /\ Done
  /\ Cardinality(DedupSet) > maxResults
  /\ opportunities[1] \notin Range(Returned)
  /\ \E r \in Range(Returned) : r.score > opportunities[1].score

\* C7: both scorers return a value >= 0, so every Candidate of the working
\* set and of the returned list has score >= 0; a pair with m5 > 30 and
\* liquidity < 15000 whose bonuses do not exceed its penalties scores 0.
C7_ScoreFloor ==
  /\ scorePc = "done" => scoreOut >= 0
  /\ \A c \in Range(opportunities) : c.score >= 0
  /\ Done => \A r \in Range(Returned) : r.score >= 0
  /\ (scorePc = "done" /\ scoreIn.kind = "pair")
       => LET p == scoreIn.payload
          IN (Gt(p.m5, 30) /\ OrElse(p.liquidity, 0) < 15000
              /\ RawOpportunityScore(p) <= 0) => scoreOut = 0

\* a negative running total, floored
C7_Witness ==
  /\ scorePc = "done"
  /\ scoreIn.kind = "pair"
  /\ Gt(scoreIn.payload.m5, 30)
  /\ OrElse(scoreIn.payload.liquidity, 0) < 15000
  /\ RawOpportunityScore(scoreIn.payload) < 0
  /\ scoreOut = 0

\* a missing number counts as 0
NumberOf(x) == IF x = Undefined THEN 0 ELSE ValueOf(x)

\* the valuation band as the rule list states it
StatedValuationBand(fdv) ==
  IF 0 < fdv /\ fdv < 500000 THEN 30
  ELSE IF 500000 <= fdv /\ fdv < 2000000 THEN 20
  ELSE IF 2000000 <= fdv /\ fdv < 10000000 THEN 10
  ELSE 0

\* the rule list of the primary scorer without the valuation band
StatedPrimaryRules(p) ==
  LET m5 == NumberOf(p.m5)
      h1 == NumberOf(p.h1)
      h24 == NumberOf(p.h24)
      liquidity == NumberOf(p.liquidity)
      volume == NumberOf(p.volume)
      buys == NumberOf(p.buys)
      sells == NumberOf(p.sells)
      rDen == Max(liquidity, 1)
      bDen == Max(sells, 1)
  IN (IF 0 < m5 /\ m5 < 15 THEN m5 * 3 ELSE 0)
     + (IF 0 < h1 /\ h1 < 30 THEN h1 * 2 ELSE 0)
     + (IF h1 > 5 /\ m5 > 0 THEN 15 ELSE 0)
     + (IF volume > 2 * rDen THEN 20 ELSE 0)
     + (IF volume > 5 * rDen THEN 15 ELSE 0)
     + (IF 10 * buys > 13 * bDen THEN 15 ELSE 0)
     + (IF buys > 2 * bDen THEN 10 ELSE 0)
     - (IF m5 > 30 THEN 25 ELSE 0)
     - (IF h1 < -15 THEN 20 ELSE 0)
     - (IF h24 < -40 THEN 20 ELSE 0)
     - (IF liquidity < 15000 THEN 10 ELSE 0)
     - (IF 2 * buys < bDen THEN 15 ELSE 0)

\* C8: the early-stage bonus is +30 for 0 < fdv < 500000, +20 for
\* 500000 <= fdv < 2000000, +10 for 2000000 <= fdv < 10000000 and +0 for
\* fdv >= 10000000 or fdv = 0: a pair that no other rule touches scores
\* exactly its band's bonus.
C8_ValuationBand ==
  (scorePc = "done" /\ scoreIn.kind = "pair" /\ StatedPrimaryRules(scoreIn.payload) = 0)
    => scoreOut = StatedValuationBand(NumberOf(scoreIn.payload.fdv))

\* C9: for fdv > 0 the primary scorer returns max(0, T), T the sum of the
\* valuation band and the rule list; the worked example scores 115.
C9_PrimaryScorerRules ==
  (scorePc = "done" /\ scoreIn.kind = "pair" /\ NumberOf(scoreIn.payload.fdv) > 0)
    => /\ scoreOut = Max(0, StatedValuationBand(NumberOf(scoreIn.payload.fdv))
                            + StatedPrimaryRules(scoreIn.payload))
       /\ scoreIn.payload = PairRising => scoreOut = 115

C9_Witness ==
  /\ scorePc = "done"
  /\ scoreIn.kind = "pair"
  /\ scoreIn.payload = PairRising
  /\ scoreOut = 115

\* the rule list of the secondary scorer over h1, h6, volume and liquidity
StatedGeckoTotal(h1, h6, volume, liquidity) ==
  10
  + (IF 0 < h1 /\ h1 < 30 THEN h1 * 2 ELSE 0)
  + (IF 0 < h6 /\ h6 < 50 THEN h6 ELSE 0)
  + (IF volume > 2 * Max(liquidity, 1) THEN 20 ELSE 0)
  - (IF h1 < -15 THEN 20 ELSE 0)
  - (IF liquidity < 15000 THEN 10 ELSE 0)

\* C10: the secondary scorer returns max(0, T), T = 10 + its rule list over
\* h1, h6, volume24h and liquidity; m5 and h24 do not change the result.
C10_GeckoScorerRules ==
  (scorePc = "done" /\ scoreIn.kind = "attr")
    => scoreOut = Max(0, StatedGeckoTotal(NumberOf(scoreIn.payload.h1),
                                          NumberOf(scoreIn.payload.h6),
                                          NumberOf(scoreIn.volume),
                                          NumberOf(scoreIn.liquidity)))

\* h1 and h6 momentum, the ratio bonus and the base bonus together, m5 over 30
C10_Witness ==
  /\ scorePc = "done"
  /\ scoreIn.kind = "attr"
  /\ scoreIn.payload.h1 = Present(10)
  /\ scoreIn.payload.h6 = Present(20)
  /\ scoreIn.payload.m5 = Present(31)
  /\ scoreIn.volume = Present(150000)
  /\ scoreOut = 70

\* the pools the trending loop iterates over (line 73)
TrendingPools == Slice(StrOrElse(trendingResp.data, <<>>), maxResults)

\* the scan is over and its trending adapter received a parsed payload
TrendingRan == Done /\ ~BoostedThrows(boostedResp) /\ trendingResp.kind = "json"

\* the trending Candidates of the working set
TrendingMints ==
  {c.mint : c \in {o \in Range(opportunities) : o.source = "geckoterminal-trending"}}

\* C11: with the chain prefix stripped from the relationship id, the
\* trending adapter discards a pool exactly when the extracted address has
\* fewer than 10 characters: in a payload whose pools all carry attributes,
\* a pool's address is the mint of a trending Candidate if and only if it
\* has 10 or more characters.
C11_TrendingAddressFilter ==
  (TrendingRan /\ \A i \in 1..Len(TrendingPools) : TrendingPools[i].attributes # Undefined)
    => \A i \in 1..Len(TrendingPools) :
         (StrLen(TokenAddr(TrendingPools[i])) >= 10)
           <=> (TokenAddr(TrendingPools[i]) \in TrendingMints)

\* the promoted list as parsed: null counts as the empty list (line 37)
BoostedList == IF boostedResp.kind = "array" THEN boostedResp.items ELSE <<>>

\* the prefix of the base-token ids of a chain, "<chain>_"
StatedPrefix(c) == IF c = "solana" THEN "solana_" ELSE "ethereum_"

\* C12: for every chain identifier passed to the scan, the promoted-listing
\* adapter selects exactly the promoted tokens whose chainId is that chain
\* (the first maxResults of them), the trending request goes to that
\* chain's network, the mint of a trending Candidate is a base-token id
\* with that chain's prefix stripped, and every returned promoted-listing
\* Candidate stems from a token of the requested chain.
C12_TargetChain ==
  (Done /\ ~BoostedThrows(boostedResp)) =>
    /\ solTokens = Slice(SelectSeq(BoostedList, LAMBDA t : ValueOf(t).chainId = chain),
                         maxResults)
    /\ \A i \in 1..Len(requests) :
         requests[i].endpoint = "trending" => requests[i].network = chain
    /\ \A m \in TrendingMints :
         \E i \in 1..Len(TrendingPools) :
           m = RemoveFirst(StrOrElse(TrendingPools[i].id, <<>>), StatedPrefix(chain))
    /\ \A r \in Range(Returned) :
         r.source = "dexscreener-boosted"
           => \E i \in 1..Len(BoostedList) :
                /\ ValueOf(BoostedList[i]).tokenAddress = r.mint
                /\ ValueOf(BoostedList[i]).chainId = chain

\* a detail answer that parses and has at least one pair
DetailOk(d) == d.kind = "json" /\ d.pairs # Undefined /\ Len(ValueOf(d.pairs)) > 0

\* the promoted-listing Candidates of the working set, in order
BoostedOpportunities ==
  SelectSeq(opportunities, LAMBDA o : o.source = "dexscreener-boosted")

\* mint and score of the Candidates that the first n selected tokens are
\* due: one for every token whose detail answer is usable, in token order
RECURSIVE DueCandidates(_)
DueCandidates(n) ==
  IF n = 0 THEN <<>>
  ELSE IF DetailOk(detailResp[n])
       THEN Append(DueCandidates(n - 1),
                   <<ValueOf(solTokens[n]).tokenAddress,
                     calculateOpportunityScore(ValueOf(detailResp[n].pairs)[1])>>)
       ELSE DueCandidates(n - 1)

\* C13: a failing detail fetch (rejected, unparsable, or without pairs)
\* costs only its own token.  Once the scan is over and the promoted list
\* was usable, every selected token has had its detail requested, the
\* promoted-listing Candidates of the working set are exactly those of the
\* tokens whose detail answer has at least one pair, in order, and the
\* trending request was issued after all the detail requests.
C13_DetailFailureContained ==
  (Done /\ ~BoostedThrows(boostedResp)) =>
    /\ Len(detailResp) = Len(solTokens)
    /\ [i \in 1..Len(BoostedOpportunities) |->
          <<BoostedOpportunities[i].mint, BoostedOpportunities[i].score>>]
         = DueCandidates(Len(solTokens))
    /\ \E k \in 1..Len(requests) :
         /\ requests[k].endpoint = "trending"
         /\ \A j \in 1..Len(requests) : requests[j].endpoint = "detail" => j < k

\* two tokens selected, the first detail request rejected, the second
\* token's Candidate and a trending Candidate in the working set
C13_Witness ==
  /\ Done
  /\ Len(solTokens) = 2
  /\ detailResp[1].kind = "reject"
  /\ DetailOk(detailResp[2])
  /\ Len(BoostedOpportunities) = 1
  /\ BoostedOpportunities[1].mint = ValueOf(solTokens[2]).tokenAddress
  /\ TrendingMints # {}

\* a pool with a usable base-token id and an attributes object
WellFormedPool(pool) ==
  /\ StrLen(RemoveFirst(StrOrElse(pool.id, <<>>), "solana_")) > 10
  /\ pool.attributes # Undefined

\* the entries of the promoted list that are objects of the scanned chain
WellFormedTokens ==
  SelectSeq(BoostedList, LAMBDA t : t # Undefined /\ ValueOf(t).chainId = chain)

\* the trending half of C14: every well-formed pool among the first
\* maxResults pools has its Candidate in the working set
C14_TrendingSiblings ==
  TrendingRan =>
    \A i \in 1..Len(TrendingPools) :
      WellFormedPool(TrendingPools[i])
        => \E o \in Range(opportunities) :
             /\ o.source = "geckoterminal-trending"
             /\ o.mint = TokenAddr(TrendingPools[i])
             /\ o.score = calculateGeckoScore(ValueOf(TrendingPools[i].attributes))

\* the promoted-list half of C14: every entry that is an object of the
\* scanned chain, up to maxResults of them, is selected and has its detail
\* requested, and yields its Candidate when the detail answer is usable
C14_BoostedSiblings ==
  (Done /\ chain = "solana" /\ boostedResp.kind = "array") =>
    /\ solTokens = Slice(WellFormedTokens, maxResults)
    /\ Len(detailResp) = Len(solTokens)
    /\ \A i \in 1..Len(detailResp) :
         DetailOk(detailResp[i])
           => \E o \in Range(opportunities) :
                /\ o.source = "dexscreener-boosted"
                /\ o.mint = ValueOf(solTokens[i]).tokenAddress

\* C14: a malformed item of a provider payload (a trending pool without an
\* attributes object, a promoted-list entry that is null) costs no sibling:
\* every well-formed item of the same payload, before or after it within
\* the first maxResults items, still yields its Candidate.
C14_MalformedItemContained == C14_TrendingSiblings /\ C14_BoostedSiblings

\* the requests of the log that went to one endpoint
RequestsTo(endpoint) == SelectSeq(requests, LAMBDA r : r.endpoint = endpoint)

\* the detail requests that are in flight
DetailInFlight == {i \in inFlight : requests[i].endpoint = "detail"}

\* C15: at every moment of a scan the promoted-list endpoint has been
\* requested at most once and the trending endpoint at most once; the
\* detail requests are one per selected token, in token order, so at most
\* maxResults in total and none repeated after a failure; and no more than
\* maxResults detail requests are in flight.
C15_BoundedSingleAttempt ==
  /\ Len(RequestsTo("boosted")) <= 1
  /\ Len(RequestsTo("trending")) <= 1
  /\ Len(RequestsTo("detail")) <= maxResults
  /\ Len(RequestsTo("detail")) <= Len(solTokens)
  /\ \A i \in 1..Len(RequestsTo("detail")) :
       RequestsTo("detail")[i].token = ValueOf(solTokens[i]).tokenAddress
  /\ Cardinality(DetailInFlight) <= maxResults
  /\ Done => inFlight = {}

\* maxResults detail requests, one rejected and one unparsable, and a
\* rejected trending request: four requests in all and none in flight
C15_Witness ==
  /\ Done
  /\ maxResults = 2
  /\ Len(solTokens) = 2
  /\ detailResp[1].kind = "reject"
  /\ detailResp[2].kind = "badjson"
  /\ trendingResp.kind = "reject"
  /\ Len(requests) = 4
  /\ Len(RequestsTo("detail")) = 2
  /\ inFlight = {}

\* C16: the wallet keypair is never overwritten.  Under every interleaving
\* of wallet invocations the wallet file is written at most once, and once
\* an address was handed out (as created, or read from an existing wallet)
\* every address read from the file later is that same address, and it is
\* the address of the keypair in the file.
C16_KeypairNeverOverwritten ==
  /\ fileWrites <= 1
  /\ \A i, j \in 1..Len(addressLog) :
       (i < j /\ ~addressLog[j].created)
         => addressLog[j].address = addressLog[i].address
  /\ \A i \in 1..Len(addressLog) : walletFile = Present(addressLog[i].address)

====
